---- MODULE Spec2Model ----
(***************************************************************************)
(* TextEncoder (cube2/networks/text.py): batching of sentences into        *)
(* word-id / character-id / case-id batches, case classification, the      *)
(* training-time input-dropout masks, and the control flow of forward.     *)
(*                                                                         *)
(* An entry is modelled by its .word, a word by the sequence of its        *)
(* characters, a character by a string naming one code point.              *)
(* random.random() returns n/Resolution for n in 0..Resolution-1, and the  *)
(* dropout probability is prob/Resolution for prob in 0..Resolution.       *)
(***************************************************************************)
EXTENDS Integers, Sequences, FiniteSets, TLC

VARIABLES
    x,              \* forward's argument: a sequence of sentences
    enc,            \* self.encodings: [word2int, char2int]
    training,       \* self.training
    prob,           \* self.config.tagger_input_dropout_prob (numerator)
    pc,             \* position in forward / _compute_masks
    max_sent_size,  \* locals of _create_batches
    max_word_size,
    char_batch,     \* list of character-id rows (before embedding)
    case_batch,     \* list of case-id rows (before embedding)
    word_batch,     \* list of word-id rows
    err,            \* "none", or the call that raised
    size,           \* _compute_masks: size[:-1]
    m1, m2,         \* _compute_masks: the two mask arrays
    ii, jj,         \* _compute_masks: loop indices
    p1, p2,         \* _compute_masks: the two draws of the last iteration
    draws,          \* number of random.random() calls made by this call
    out,            \* <<>> or <<operands of the tanh of forward>>
    prev            \* <<>> or <<out of the latest inference-mode forward>>

vars == <<x, enc, training, prob, pc, max_sent_size, max_word_size, char_batch,
          case_batch, word_batch, err, size, m1, m2, ii, jj, p1, p2, draws,
          out, prev>>

-----------------------------------------------------------------------------
(* Bounds *)

MaxBatch == 2
MaxSentLen == 2
MaxEntries == 4
MaxCells == 4
Resolution == 2

-----------------------------------------------------------------------------
(* Characters: str.lower() and str.upper() on one code point.              *)
(* "Dz" names U+01C5 (titlecase), "dz" U+01C6 and "DZ" U+01C4.             *)

lower(char) ==
    CASE char = "C" -> "c"
      [] char = "A" -> "a"
      [] char = "T" -> "t"
      [] char = "S" -> "s"
      [] char = "Dz" -> "dz"
      [] char = "DZ" -> "dz"
      [] OTHER -> char

upper(char) ==
    CASE char = "c" -> "C"
      [] char = "a" -> "A"
      [] char = "t" -> "T"
      [] char = "s" -> "S"
      [] char = "Dz" -> "DZ"
      [] char = "dz" -> "DZ"
      [] OTHER -> char

LowerWord(word) ==
    IF word = <<>> THEN <<>> ELSE [k \in 1..Len(word) |-> lower(word[k])]

-----------------------------------------------------------------------------
(* Vocabularies *)

PADw == <<"<", "P", "A", "D", ">">>
UNKw == <<"<", "U", "N", "K", ">">>
PADc == "<PAD>"
UNKc == "<UNK>"

Cat == <<"C", "a", "t">>
sat == <<"s", "a", "t">>
Dz1 == <<"Dz", "1">>

\* the vocabulary of the documented example: <PAD> is 0 and <UNK> is 1
Enc1 ==
    [word2int |-> (PADw :> 0) @@ (UNKw :> 1) @@ (<<"c", "a", "t">> :> 5)
                  @@ (<<"s", "a", "t">> :> 6),
     char2int |-> (PADc :> 0) @@ (UNKc :> 1) @@ ("c" :> 2) @@ ("a" :> 3)
                  @@ ("t" :> 4) @@ ("s" :> 5)]

\* a vocabulary whose <PAD> ids are not 0 and which holds original-case keys
Enc2 ==
    [word2int |-> (UNKw :> 0) @@ (<<"c", "a", "t">> :> 1) @@ (PADw :> 2)
                  @@ (Dz1 :> 3) @@ (Cat :> 4),
     char2int |-> (UNKc :> 0) @@ ("a" :> 1) @@ ("c" :> 2) @@ (PADc :> 3)
                  @@ ("C" :> 4) @@ ("1" :> 5)]

Encodings == {Enc1, Enc2}

-----------------------------------------------------------------------------
(* Inputs *)

Words == {<<>>, Cat, sat, Dz1}

SeqsUpTo(S, n) == UNION {[1..k -> S] : k \in 0..n}

Sentences == SeqsUpTo(Words, MaxSentLen)

RECURSIVE Entries(_)
Entries(sents) == IF sents = <<>> THEN 0 ELSE Len(Head(sents)) + Entries(Tail(sents))

\* at most MaxBatch sentences of at most MaxSentLen entries, MaxEntries in all
Batches == {b \in SeqsUpTo(Sentences, MaxBatch) : Entries(b) <= MaxEntries}

FwdBatches ==
    { <<>>,
      << <<>> >>,
      << <<>>, <<>> >>,
      << << <<>> >> >>,
      << <<Dz1>> >>,
      << <<Cat, sat>> >>,
      << <<Cat>>, <<sat, Dz1>> >>,
      << <<Cat, Cat>>, <<sat>> >> }

Sizes == {s \in (0..MaxCells) \X (0..MaxCells) : s[1] * s[2] <= MaxCells}

-----------------------------------------------------------------------------
(* Helpers for Python lists *)

Repeat(v, n) == IF n <= 0 THEN <<>> ELSE [k \in 1..n |-> v]

Ones(rows, cols) == Repeat(Repeat(1, cols), rows)

-----------------------------------------------------------------------------
(* _case_index *)

case_index_swapped(char) ==
    IF lower(char) = upper(char) THEN 3
    ELSE IF upper(char) # char THEN 1
    ELSE 2

case_index(char) ==
    IF lower(char) = upper(char) THEN 3      \* symbol
    ELSE IF upper(char) # char THEN 2        \* lowercase
    ELSE 1                                   \* uppercase

-----------------------------------------------------------------------------
(* _create_batches *)

\* first loop: "if len(...) > max: max = len(...)" over a list
RECURSIVE MaxLenFrom(_, _)
MaxLenFrom(list, m) ==
    IF list = <<>> THEN m
    ELSE MaxLenFrom(Tail(list), IF Len(Head(list)) > m THEN Len(Head(list)) ELSE m)

MaxSentSize(sents) == MaxLenFrom(sents, 0)

RECURSIVE MaxWordFrom(_, _)
MaxWordFrom(sents, m) ==
    IF sents = <<>> THEN m
    ELSE MaxWordFrom(Tail(sents), MaxLenFrom(Head(sents), m))

MaxWordSize_lastSentence(sents) ==
    IF sents = <<>> THEN 0 ELSE MaxLenFrom(sents[Len(sents)], 0)

MaxWordSize(sents) == MaxWordFrom(sents, 0)

WordId_exactFirst(e, word) ==
    IF word \in DOMAIN e.word2int THEN e.word2int[word]
    ELSE IF LowerWord(word) \in DOMAIN e.word2int THEN e.word2int[LowerWord(word)]
    ELSE e.word2int[UNKw]

WordId(e, word) ==
    IF LowerWord(word) \in DOMAIN e.word2int
    THEN e.word2int[LowerWord(word)]
    ELSE e.word2int[UNKw]

CharId(e, char) ==
    IF lower(char) \in DOMAIN e.char2int
    THEN e.char2int[lower(char)]
    ELSE e.char2int[UNKc]

\* the id appended to char_int for each missing character of a short word
CharPadId(e) == e.char2int[PADc]

\* the id appended to sent_int for each missing entry of a short sentence
WordPadId(e) == e.word2int[PADw]

CharInt(e, word, mws) ==
    (IF word = <<>> THEN <<>> ELSE [k \in 1..Len(word) |-> CharId(e, word[k])])
    \o Repeat(CharPadId(e), mws - Len(word))

CaseInt_lowered(word, mws) ==
    (IF word = <<>> THEN <<>>
     ELSE [k \in 1..Len(word) |-> case_index(lower(word[k]))])
    \o Repeat(0, mws - Len(word))

CaseInt(word, mws) ==
    (IF word = <<>> THEN <<>> ELSE [k \in 1..Len(word) |-> case_index(word[k])])
    \o Repeat(0, mws - Len(word))

SentInt_unpadded(e, sent, mss) ==
    IF sent = <<>> THEN <<>> ELSE [j \in 1..Len(sent) |-> WordId(e, sent[j])]

SentInt(e, sent, mss) ==
    (IF sent = <<>> THEN <<>> ELSE [j \in 1..Len(sent) |-> WordId(e, sent[j])])
    \o Repeat(WordPadId(e), mss - Len(sent))

\* the rows one sentence appends to char_batch: its words, then the padding rows
SentCharRows_padFirst(e, sent, mss, mws) ==
    Repeat(Repeat(0, mws), mss - Len(sent))
    \o (IF sent = <<>> THEN <<>>
        ELSE [j \in 1..Len(sent) |-> CharInt(e, sent[j], mws)])

SentCharRows(e, sent, mss, mws) ==
    (IF sent = <<>> THEN <<>>
     ELSE [j \in 1..Len(sent) |-> CharInt(e, sent[j], mws)])
    \o Repeat(Repeat(0, mws), mss - Len(sent))

SentCaseRows(sent, mss, mws) ==
    (IF sent = <<>> THEN <<>>
     ELSE [j \in 1..Len(sent) |-> CaseInt(sent[j], mws)])
    \o Repeat(Repeat(0, mws), mss - Len(sent))

RECURSIVE CharBatch(_, _, _, _)
CharBatch(e, sents, mss, mws) ==
    IF sents = <<>> THEN <<>>
    ELSE SentCharRows(e, Head(sents), mss, mws) \o CharBatch(e, Tail(sents), mss, mws)

RECURSIVE CaseBatch(_, _, _)
CaseBatch(sents, mss, mws) ==
    IF sents = <<>> THEN <<>>
    ELSE SentCaseRows(Head(sents), mss, mws) \o CaseBatch(Tail(sents), mss, mws)

WordBatch(e, sents, mss) ==
    IF sents = <<>> THEN <<>>
    ELSE [i \in 1..Len(sents) |-> SentInt(e, sents[i], mss)]

\* torch.tensor(rows): a list with no rows is 1-dimensional
TensorNdim(rows) == IF rows = <<>> THEN 1 ELSE 2

\* torch.tensor(rows) is an integer tensor only when the list holds a number;
\* with none it has the default floating-point type
TensorIsIntegral(rows) == \E r \in 1..Len(rows) : rows[r] # <<>>

\* lines 146-149: an embedding takes integer indices only and adds one
\* dimension; torch.cat(..., dim=2) needs three
BatchError(chars, cases) ==
    IF ~TensorIsIntegral(chars) THEN "char_emb"
    ELSE IF ~TensorIsIntegral(cases) THEN "case_emb"
    ELSE IF TensorNdim(chars) + 1 < 3 THEN "cat"
    ELSE "none"

CreateBatches ==
    /\ pc = "start"
    /\ LET mss == MaxSentSize(x)
           mws == MaxWordSize(x)
           chars == CharBatch(enc, x, mss, mws)
           cases == CaseBatch(x, mss, mws)
           e == BatchError(chars, cases)
       IN  /\ max_sent_size' = mss
           /\ max_word_size' = mws
           /\ char_batch' = chars
           /\ case_batch' = cases
           /\ word_batch' = WordBatch(enc, x, mss)
           /\ err' = e
           /\ pc' = IF e = "none" THEN "batched" ELSE "raised"
    /\ UNCHANGED <<x, enc, training, prob, size, m1, m2, ii, jj, p1, p2, draws,
                   out, prev>>

-----------------------------------------------------------------------------
(* _compute_masks *)

MaskPair_independent(a, b, p) ==
    <<IF a < p THEN 0 ELSE 2, IF b < p THEN 0 ELSE 2>>

MaskPair(a, b, p) ==
    IF a >= p /\ b < p THEN <<2, 0>>
    ELSE IF a < p /\ b >= p THEN <<0, 2>>
    ELSE IF a < p /\ b < p THEN <<0, 0>>
    ELSE <<1, 1>>

\* m1 = np.ones(size[:-1]); m2 = np.ones(size[:-1])
MasksAlloc ==
    /\ pc = "compute_masks"
    /\ m1' = Ones(size[1], size[2])
    /\ m2' = Ones(size[1], size[2])
    /\ ii' = 0
    /\ jj' = 0
    /\ pc' = "mask_loop"
    /\ UNCHANGED <<x, enc, training, prob, max_sent_size, max_word_size,
                   char_batch, case_batch, word_batch, err, size, p1, p2, draws,
                   out, prev>>

\* one iteration of the inner loop, at (ii, jj)
MaskStep ==
    /\ pc = "mask_loop"
    /\ ii < size[1]
    /\ jj < size[2]
    /\ \E a \in 0..(Resolution - 1), b \in 0..(Resolution - 1) :
         LET mm == MaskPair(a, b, prob)
         IN  /\ p1' = a
             /\ p2' = b
             /\ m1' = [m1 EXCEPT ![ii + 1][jj + 1] = mm[1]]
             /\ m2' = [m2 EXCEPT ![ii + 1][jj + 1] = mm[2]]
    /\ draws' = draws + 2
    /\ IF jj + 1 < size[2]
       THEN ii' = ii /\ jj' = jj + 1
       ELSE ii' = ii + 1 /\ jj' = 0
    /\ UNCHANGED <<x, enc, training, prob, pc, max_sent_size, max_word_size,
                   char_batch, case_batch, word_batch, err, size, out, prev>>

\* both loops are exhausted: the arrays are returned as tensors
MasksReturn ==
    /\ pc = "mask_loop"
    /\ ii >= size[1] \/ jj >= size[2]
    /\ pc' = "masked"
    /\ UNCHANGED <<x, enc, training, prob, max_sent_size, max_word_size,
                   char_batch, case_batch, word_batch, err, size, m1, m2, ii, jj,
                   p1, p2, draws, out, prev>>

-----------------------------------------------------------------------------
(* forward *)

UseMasks_always(t) == TRUE

\* "if self.training:"
UseMasks(t) == t

\* the operands of torch.tanh: the batches the two vectors are computed from
\* and the factor each vector is multiplied by at each position
Operands(mc, mw) ==
    [chars |-> char_batch, cases |-> case_batch, words |-> word_batch,
     mask_char |-> mc, mask_word |-> mw]

\* training: masks_char, masks_word = self._compute_masks(char_emb.size(), ...)
ForwardCallMasks ==
    /\ pc = "batched"
    /\ UseMasks(training)
    /\ size' = <<Len(word_batch), max_sent_size>>
    /\ pc' = "compute_masks"
    /\ UNCHANGED <<x, enc, training, prob, max_sent_size, max_word_size,
                   char_batch, case_batch, word_batch, err, m1, m2, ii, jj, p1,
                   p2, draws, out, prev>>

\* training: x = tanh(masks_char * char_emb + masks_word * word_emb)
ForwardTrain ==
    /\ pc = "masked"
    /\ out' = <<Operands(m1, m2)>>
    /\ pc' = "done"
    /\ UNCHANGED <<x, enc, training, prob, max_sent_size, max_word_size,
                   char_batch, case_batch, word_batch, err, size, m1, m2, ii, jj,
                   p1, p2, draws, prev>>

\* inference: x = tanh(char_emb + word_emb)
ForwardEval ==
    /\ pc = "batched"
    /\ ~UseMasks(training)
    /\ out' = <<Operands(Ones(Len(word_batch), max_sent_size),
                         Ones(Len(word_batch), max_sent_size))>>
    /\ pc' = "done"
    /\ UNCHANGED <<x, enc, training, prob, max_sent_size, max_word_size,
                   char_batch, case_batch, word_batch, err, size, m1, m2, ii, jj,
                   p1, p2, draws, prev>>

\* the caller calls forward again with the same input and parameters, after
\* model.train() or model.eval(); the locals of the finished call are gone
CallAgain ==
    /\ pc = "done"
    /\ pc' = "start"
    /\ training' \in BOOLEAN
    /\ prev' = IF training THEN prev ELSE out
    /\ max_sent_size' = 0
    /\ max_word_size' = 0
    /\ char_batch' = <<>>
    /\ case_batch' = <<>>
    /\ word_batch' = <<>>
    /\ err' = "none"
    /\ size' = <<0, 0>>
    /\ m1' = <<>>
    /\ m2' = <<>>
    /\ ii' = 0
    /\ jj' = 0
    /\ p1' = 0
    /\ p2' = 0
    /\ draws' = 0
    /\ out' = <<>>
    /\ UNCHANGED <<x, enc, prob>>

-----------------------------------------------------------------------------
(* Specifications *)

Fresh ==
    /\ max_sent_size = 0
    /\ max_word_size = 0
    /\ char_batch = <<>>
    /\ case_batch = <<>>
    /\ word_batch = <<>>
    /\ err = "none"
    /\ m1 = <<>>
    /\ m2 = <<>>
    /\ ii = 0
    /\ jj = 0
    /\ p1 = 0
    /\ p2 = 0
    /\ draws = 0
    /\ out = <<>>
    /\ prev = <<>>

\* forward(x) on a constructed module
Init ==
    /\ x \in FwdBatches
    /\ enc \in Encodings
    /\ training \in BOOLEAN
    /\ prob \in 0..Resolution
    /\ pc = "start"
    /\ size = <<0, 0>>
    /\ Fresh

Next ==
    \/ CreateBatches
    \/ ForwardCallMasks
    \/ MasksAlloc
    \/ MaskStep
    \/ MasksReturn
    \/ ForwardTrain
    \/ ForwardEval
    \/ CallAgain

Spec == Init /\ [][Next]_vars

\* _create_batches(x) alone, on every batch within the bounds
InitBatches ==
    /\ x \in Batches
    /\ enc \in Encodings
    /\ training = FALSE
    /\ prob = 0
    /\ pc = "start"
    /\ size = <<0, 0>>
    /\ Fresh

NextBatches == CreateBatches

SpecBatches == InitBatches /\ [][NextBatches]_vars

\* _compute_masks(size, prob) alone, on every size within the bounds
InitMasks ==
    /\ x = <<>>
    /\ enc = Enc1
    /\ training = TRUE
    /\ prob \in 0..Resolution
    /\ pc = "compute_masks"
    /\ size \in Sizes
    /\ Fresh

NextMasks ==
    \/ MasksAlloc
    \/ MaskStep
    \/ MasksReturn

SpecMasks == InitMasks /\ [][NextMasks]_vars

-----------------------------------------------------------------------------
(* Properties of _create_batches, under SpecBatches *)

\* _create_batches has built its three lists
Batched == pc \in {"batched", "raised"}

\* row of char_batch / case_batch for entry j of sentence i (both from 1)
RowOf(i, j) == (i - 1) * max_sent_size + j

SentIdx == 1..Len(x)

\* (i, j, k): character k of entry j of sentence i
CharPositions ==
    {t \in SentIdx \X (1..MaxSentLen) \X (1..max_word_size) :
        /\ t[2] <= Len(x[t[1]])
        /\ t[3] <= Len(x[t[1]][t[2]])}

\* (r, k) is a padding position of char_batch / case_batch: row r is a
\* sentence-padding row, or k lies right of the word of row r
IsPadding(i, j, k) ==
    \/ j > Len(x[i])
    \/ k > Len(x[i][j])

AllZero(row) == \A k \in 1..Len(row) : row[k] = 0

\* C2: every padding position of the character-id and case-id batches holds
\* id 0, for the right-padding of a short word and for sentence-padding rows
\* alike, whatever id char2int gives '<PAD>'; word padding holds
\* word2int['<PAD>'].
C2_CharPaddingIsZero ==
    Batched =>
        \A i \in SentIdx : \A j \in 1..max_sent_size :
            /\ \A k \in 1..max_word_size :
                 IsPadding(i, j, k) =>
                     /\ char_batch[RowOf(i, j)][k] = 0
                     /\ case_batch[RowOf(i, j)][k] = 0
            /\ j > Len(x[i]) => word_batch[i][j] = enc.word2int[PADw]

\* C4: the word-id batch has one row per sentence, every row of length
\* max_sent_size, the length of the longest sentence; row i holds the ids of
\* sentence i's words in order and then word2int['<PAD>'].
C4_WordBatchShape ==
    Batched =>
        /\ Len(word_batch) = Len(x)
        /\ \A i \in SentIdx : Len(x[i]) <= max_sent_size
        /\ IF x = <<>> THEN max_sent_size = 0
           ELSE \E i \in SentIdx : Len(x[i]) = max_sent_size
        /\ \A i \in SentIdx :
             /\ Len(word_batch[i]) = max_sent_size
             /\ \A j \in 1..max_sent_size :
                  word_batch[i][j] =
                      IF j <= Len(x[i])
                      THEN (IF LowerWord(x[i][j]) \in DOMAIN enc.word2int
                            THEN enc.word2int[LowerWord(x[i][j])]
                            ELSE enc.word2int[UNKw])
                      ELSE enc.word2int[PADw]

\* a batch with a sentence that has words and is shorter than the longest
C4_Witness ==
    /\ Batched
    /\ \E i \in SentIdx : 0 < Len(x[i]) /\ Len(x[i]) < max_sent_size

WordLens == UNION {{Len(x[i][j]) : j \in 1..Len(x[i])} : i \in SentIdx}

\* C5: the character-id and case-id batches have the same shape: exactly
\* batch * max_sent_size rows, each of length max_word_size, the length of the
\* longest word over all sentences of the batch.
C5_CharCaseShape ==
    Batched =>
        /\ Len(char_batch) = Len(x) * max_sent_size
        /\ Len(case_batch) = Len(x) * max_sent_size
        /\ \A r \in 1..Len(char_batch) :
             /\ Len(char_batch[r]) = max_word_size
             /\ Len(case_batch[r]) = max_word_size
        /\ \A n \in WordLens : n <= max_word_size
        /\ IF WordLens = {} THEN max_word_size = 0 ELSE max_word_size \in WordLens

\* two sentences of different lengths; the longest word of the batch is not
\* in the last sentence
C5_Witness ==
    /\ Batched
    /\ Len(x) = 2
    /\ Len(x[1]) > Len(x[2])
    /\ Len(x[2]) > 0
    /\ \A j \in 1..Len(x[2]) : Len(x[2][j]) < max_word_size

\* C6: the word id is word2int[lowercased word] when that is a key and
\* word2int['<UNK>'] otherwise, the original-case form never being looked up;
\* the character id is char2int[lowercased character] when that is a key and
\* char2int['<UNK>'] otherwise; no lookup raises.
C6_LookupFallsBackToUnk ==
    Batched =>
        /\ err # "KeyError"
        /\ \A i \in SentIdx : \A j \in 1..Len(x[i]) :
             LET w == x[i][j]
                 lw == LowerWord(w)
             IN  /\ lw \in DOMAIN enc.word2int =>
                        word_batch[i][j] = enc.word2int[lw]
                 /\ lw \notin DOMAIN enc.word2int =>
                        word_batch[i][j] = enc.word2int[UNKw]
                 /\ \A k \in 1..Len(w) :
                      /\ lower(w[k]) \in DOMAIN enc.char2int =>
                             char_batch[RowOf(i, j)][k] = enc.char2int[lower(w[k])]
                      /\ lower(w[k]) \notin DOMAIN enc.char2int =>
                             char_batch[RowOf(i, j)][k] = enc.char2int[UNKc]

\* a word whose original form is a key and whose lowercased form is not, a word
\* whose two forms are both keys, and a character of either kind
C6_Witness ==
    /\ Batched
    /\ \E i \in SentIdx : \E j \in 1..Len(x[i]) :
         /\ x[i][j] \in DOMAIN enc.word2int
         /\ LowerWord(x[i][j]) \notin DOMAIN enc.word2int
    /\ \E i \in SentIdx : \E j \in 1..Len(x[i]) :
         /\ x[i][j] \in DOMAIN enc.word2int
         /\ LowerWord(x[i][j]) \in DOMAIN enc.word2int
         /\ x[i][j] # LowerWord(x[i][j])
         /\ \E k \in 1..Len(x[i][j]) :
              /\ x[i][j][k] \in DOMAIN enc.char2int
              /\ x[i][j][k] # lower(x[i][j][k])

\* the case of a character, from the Unicode character database
CharClass(char) ==
    CASE char \in {"C", "A", "T", "S", "DZ"} -> "upper"
      [] char \in {"c", "a", "t", "s", "dz"} -> "lower"
      [] char = "Dz" -> "title"
      [] OTHER -> "symbol"

C9_CaseBatchValues ==
    Batched =>
        \A i \in SentIdx : \A j \in 1..max_sent_size :
            /\ \A k \in 1..max_word_size :
                 /\ case_batch[RowOf(i, j)][k] \in 0..3
                 /\ (case_batch[RowOf(i, j)][k] = 0) <=> IsPadding(i, j, k)
                 /\ ~IsPadding(i, j, k) =>
                        case_batch[RowOf(i, j)][k] = case_index(x[i][j][k])
            /\ (j <= Len(x[i]) /\ x[i][j] = Cat) =>
                   SubSeq(case_batch[RowOf(i, j)], 1, 3) = <<1, 2, 2>>
            /\ (j <= Len(x[i]) /\ x[i][j] = sat) =>
                   SubSeq(case_batch[RowOf(i, j)], 1, 3) = <<2, 2, 2>>

\* 'Cat' and 'sat' next to a shorter word and a sentence-padding row
C9_Witness ==
    /\ Batched
    /\ \E i \in SentIdx : \E j \in 1..Len(x[i]) : x[i][j] = Cat
    /\ \E i \in SentIdx : \E j \in 1..Len(x[i]) : x[i][j] = sat
    /\ \E i \in SentIdx : \E j \in 1..Len(x[i]) : Len(x[i][j]) < max_word_size
    /\ \E i \in SentIdx : Len(x[i]) < max_sent_size

\* C10: row (i, j) of the character-id and case-id batches, in row-major
\* order, is built from the entry at position (i, j) of the word-id batch, and
\* is a sentence-padding row, all zero, exactly when (i, j) is a '<PAD>'
\* position of the word-id batch; the row of a word that has characters is
\* never all zero in the case channel.
C10_RowAlignment ==
    Batched =>
        \A i \in SentIdx : \A j \in 1..max_sent_size :
            LET r == (i - 1) * max_sent_size + j
            IN  IF j <= Len(x[i])
                THEN /\ word_batch[i][j] = WordId(enc, x[i][j])
                     /\ \A k \in 1..Len(x[i][j]) :
                          /\ char_batch[r][k] = CharId(enc, x[i][j][k])
                          /\ case_batch[r][k] = case_index(x[i][j][k])
                     /\ x[i][j] # <<>> => ~AllZero(case_batch[r])
                ELSE /\ word_batch[i][j] = WordPadId(enc)
                     /\ AllZero(char_batch[r])
                     /\ AllZero(case_batch[r])

\* a short first sentence followed by a longer one: the padding row of the
\* first sentence lies between rows of words
C10_Witness ==
    /\ Batched
    /\ Len(x) = 2
    /\ Len(x[1]) = 1
    /\ Len(x[2]) = 2
    /\ \A j \in 1..2 : x[2][j] # <<>>
    /\ x[1][1] # <<>>

-----------------------------------------------------------------------------
(* Properties of _compute_masks, under SpecMasks *)

FourPairs == {<<2, 0>>, <<0, 2>>, <<0, 0>>, <<1, 1>>}

Cells == {c \in (1..MaxCells) \X (1..MaxCells) : c[1] <= size[1] /\ c[2] <= size[2]}

\* the mask pair the two draws a, b select under dropout probability p
ExpectedPair(a, b, p) ==
    CASE a >= p /\ b < p -> <<2, 0>>
      [] a < p /\ b >= p -> <<0, 2>>
      [] a < p /\ b < p -> <<0, 0>>
      [] OTHER -> <<1, 1>>

\* C1: each iteration writes, at its position, the pair the table gives for
\* its two draws: p1 >= prob and p2 < prob gives (2, 0); p1 < prob and
\* p2 >= prob gives (0, 2); both below prob gives (0, 0); otherwise (1, 1);
\* it changes no other position, so that every position of the returned masks
\* holds one of exactly (2,0), (0,2), (0,0), (1,1).
C1_MaskPairs ==
    /\ [](pc \in {"mask_loop", "masked"} =>
            /\ Len(m1) = size[1]
            /\ Len(m2) = size[1]
            /\ \A c \in Cells : <<m1[c[1]][c[2]], m2[c[1]][c[2]]>> \in FourPairs)
    /\ [][(pc = "mask_loop" /\ draws' # draws) =>
            /\ <<m1'[ii + 1][jj + 1], m2'[ii + 1][jj + 1]>> = ExpectedPair(p1', p2', prob)
            /\ \A c \in Cells :
                 c # <<ii + 1, jj + 1>> =>
                     /\ m1'[c[1]][c[2]] = m1[c[1]][c[2]]
                     /\ m2'[c[1]][c[2]] = m2[c[1]][c[2]]]_vars

\* returned masks in which all four pairs occur
C1_Witness ==
    /\ pc = "masked"
    /\ \A pair \in FourPairs :
         \E c \in Cells : <<m1[c[1]][c[2]], m2[c[1]][c[2]]>> = pair

-----------------------------------------------------------------------------
(* Properties of forward, under Spec *)

\* C3: forward on an empty list of sentences, or on sentences that all have
\* no entries, does not raise, and the sentence-length dimension is 0.
C3_EmptyBatchDoesNotRaise ==
    (pc # "start" /\ \A i \in 1..Len(x) : x[i] = <<>>) =>
        /\ err = "none"
        /\ pc # "raised"
        /\ max_sent_size = 0

\* C8: outside training mode forward never enters _compute_masks and draws
\* nothing from the random source; the two vectors are summed unscaled, and a
\* second call with the same input and parameters gives the same result. In
\* training mode the masks are computed and applied.
C8_InferenceSkipsMasks ==
    /\ ~training =>
           /\ draws = 0
           /\ pc \notin {"compute_masks", "mask_loop", "masked"}
           /\ m1 = <<>> /\ m2 = <<>>
    /\ (pc = "done" /\ ~training) =>
           /\ out # <<>>
           /\ \A i \in 1..Len(x) : \A j \in 1..max_sent_size :
                /\ out[1].mask_char[i][j] = 1
                /\ out[1].mask_word[i][j] = 1
           /\ prev # <<>> => out = prev
    /\ (pc = "done" /\ training) =>
           /\ draws = 2 * Len(x) * max_sent_size
           /\ out[1].mask_char = m1
           /\ out[1].mask_word = m2

\* a second inference-mode call on a batch with words has returned, with a
\* dropout probability under which training would have dropped something
C8_Witness ==
    /\ pc = "done"
    /\ ~training
    /\ prev # <<>>
    /\ prob > 0
    /\ Len(x) > 1
    /\ max_sent_size > 1

====
